---- MODULE Spec2Model ----
(***************************************************************************)
(* A model of cp-dojo-tool.py: the identifier extraction of                *)
(* CPDojoConfig.PLATFORM_REGEX, the file names and templates of            *)
(* CPDojoTool / CPDojoTemplate, and the session CPDojoTool.run with the    *)
(* filesystem, the daily log and the problems table it writes.             *)
(*                                                                         *)
(* A Python str is modelled as a sequence of one-character strings, so    *)
(* that re.search, str.lower, str.split and the f-strings are computed    *)
(* character by character.                                                 *)
(***************************************************************************)
EXTENDS Integers, Sequences, FiniteSets, TLC

VARIABLES
    pc,            \* the next step of the running session (CPDojoTool.run) or its end
    platform,      \* run(): platform chosen from the menu
    language,      \* run(): language chosen from the menu
    problem_link,  \* run(): the pasted link, stripped
    problem_info,  \* run(): the ProblemInfo built at lines 356-364, NotRun before
    directories,   \* run(): value returned by create_problem_directories
    created,       \* run(): file names returned by create_problem_files
    error,         \* the exception that left run(), or None
    printed,       \* what the session printed to the terminal, in order
    logged,        \* what the session sent to self.logger, in order
    calls,         \* the methods run() has called in this session, in order
    dirs,          \* the filesystem: the directories that exist
    files,         \* the filesystem: the files that exist, each a path and a text
    daily_log,     \* My-CP-Dojo/daily_log.md: the entries appended, in order
    problems,      \* the rows of table problems of My-CP-Dojo/problems.db
    clock,         \* datetime.now(), a logical time
    before,        \* filesystem and ledger when the running session started
    history,       \* outcome of every finished session, in call order
    faults,        \* number of I/O faults the environment has injected
    inp,           \* input of the pure function under check
    out            \* its result

vars == <<pc, platform, language, problem_link, problem_info, directories, created,
          error, printed, logged, calls, dirs, files, daily_log, problems, clock,
          before, history, faults, inp, out>>

sessionVars == <<pc, platform, language, problem_link, problem_info, directories,
                 created, error, printed, logged, calls, dirs, files, daily_log,
                 problems, clock, before, history, faults>>

None == "None"

-----------------------------------------------------------------------------
(* Python strings.                                                         *)

UPPERCASE == <<"A", "B", "C", "D", "E", "F", "G", "H", "I", "J", "K", "L", "M", "N", "O", "P", "Q", "R", "S", "T", "U", "V", "W", "X", "Y", "Z">>
LOWERCASE == <<"a", "b", "c", "d", "e", "f", "g", "h", "i", "j", "k", "l", "m", "n", "o", "p", "q", "r", "s", "t", "u", "v", "w", "x", "y", "z">>
DIGITS == <<"0", "1", "2", "3", "4", "5", "6", "7", "8", "9">>

Range(s) == {s[i] : i \in DOMAIN s}

Upper == Range(UPPERCASE)
Lower == Range(LOWERCASE)
Digit == Range(DIGITS)

\* str.lower() on one character, then on a string
LowerChar(c) ==
    IF c \in Upper THEN LOWERCASE[CHOOSE i \in DOMAIN UPPERCASE : UPPERCASE[i] = c] ELSE c

StrLower(s) == [i \in DOMAIN s |-> LowerChar(s[i])]

\* s[i:j] of Python with 1-based inclusive positions; empty when j < i
Slice(s, i, j) == IF j < i THEN <<>> ELSE SubSeq(s, i, j)

\* the literal text lit stands in s at position i
LitAt(s, i, lit) ==
    /\ i + Len(lit) - 1 <= Len(s)
    /\ \A k \in 1..Len(lit) : s[i + k - 1] = lit[k]

\* a character class of a pattern, [...] or [^...], and membership in it
Class(chars) == [negated |-> FALSE, chars |-> chars]
NegatedClass(chars) == [negated |-> TRUE, chars |-> chars]
InClass(c, class) == (c \in class.chars) # class.negated

\* the last position of the longest run of characters of class that starts at position
\* i (i - 1 when the run is empty): what a greedy [...]+ consumes
RunEnd(s, i, class) ==
    IF i > Len(s) \/ ~InClass(s[i], class) THEN i - 1
    ELSE CHOOSE j \in i..Len(s) :
            /\ \A k \in i..j : InClass(s[k], class)
            /\ (j = Len(s) \/ ~InClass(s[j + 1], class))

\* str.split('_')[-1]: the text after the last underscore, the whole text without one
LastUnderscoreSegment(s) ==
    LET us == {i \in DOMAIN s : s[i] = "_"}
    IN IF us = {} THEN s
       ELSE Slice(s, (CHOOSE i \in us : \A k \in us : k <= i) + 1, Len(s))

-----------------------------------------------------------------------------
(* CPDojoConfig                                                            *)

Codeforces == <<"C", "o", "d", "e", "f", "o", "r", "c", "e", "s">>
Leetcode == <<"L", "e", "e", "t", "c", "o", "d", "e">>
CodeChef == <<"C", "o", "d", "e", "C", "h", "e", "f">>
AtCoder == <<"A", "t", "C", "o", "d", "e", "r">>

PLATFORMS == <<AtCoder, CodeChef, Codeforces, Leetcode>>

LANGUAGES ==
    [l \in {"C++", "Python", "Java", "JavaScript", "Go", "Kotlin", "Rust"} |->
        CASE l = "C++" -> <<".", "c", "p", "p">>
          [] l = "Python" -> <<".", "p", "y">>
          [] l = "Java" -> <<".", "j", "a", "v", "a">>
          [] l = "JavaScript" -> <<".", "j", "s">>
          [] l = "Go" -> <<".", "g", "o">>
          [] l = "Kotlin" -> <<".", "k", "t">>
          [] l = "Rust" -> <<".", "r", "s">>]

\* character classes of the four patterns
NotSlash == NegatedClass({"/"})
AlNum == Class(Upper \cup Lower \cup Digit)
AlNumHyphen == Class(Upper \cup Lower \cup Digit \cup {"-"})
UpperDigit == Class(Upper \cup Digit)

LIT_codeforces == <<"c", "o", "d", "e", "f", "o", "r", "c", "e", "s", ".", "c", "o", "m", "/">>
LIT_leetcode == <<"l", "e", "e", "t", "c", "o", "d", "e", ".", "c", "o", "m", "/">>
LIT_codechef == <<"c", "o", "d", "e", "c", "h", "e", "f", ".", "c", "o", "m", "/">>
LIT_atcoder == <<"a", "t", "c", "o", "d", "e", "r", ".", "j", "p", "/", "c", "o", "n", "t", "e", "s", "t", "s", "/">>
LIT_contest == <<"c", "o", "n", "t", "e", "s", "t">>
LIT_group == <<"g", "r", "o", "u", "p">>
LIT_problemset_problem == <<"p", "r", "o", "b", "l", "e", "m", "s", "e", "t", "/", "p", "r", "o", "b", "l", "e", "m">>
LIT_problem_slash == <<"p", "r", "o", "b", "l", "e", "m", "/">>
LIT_problems == <<"p", "r", "o", "b", "l", "e", "m", "s">>
LIT_problems_slash == <<"p", "r", "o", "b", "l", "e", "m", "s", "/">>
LIT_slash_problems_slash == <<"/", "p", "r", "o", "b", "l", "e", "m", "s", "/">>
LIT_slash_tasks_slash == <<"/", "t", "a", "s", "k", "s", "/">>
LIT_leetcode_id == <<"l", "e", "e", "t", "c", "o", "d", "e">>
LIT_codechef_id == <<"c", "o", "d", "e", "c", "h", "e", "f">>
LIT_unknown == <<"u", "n", "k", "n", "o", "w", "n">>

NoMatch == [matched |-> FALSE]
\* a match and its groups; a group that took no part in the match (match.group(n) is
\* None) is NoGroup
NoGroup == [none |-> TRUE]
Group(text) == [none |-> FALSE, text |-> text]
Match(g1, g2) == [matched |-> TRUE, g1 |-> g1, g2 |-> g2]

\* a greedy class+ at position i: its text, and whether it is non-empty
Run(s, i, class) == Slice(s, i, RunEnd(s, i, class))
HasRun(s, i, class) == RunEnd(s, i, class) >= i

\* codeforces\.com/(?:contest|group|problemset/problem)/([^/]+)/(?:problem/)?([A-Za-z0-9]+)
\* anchored at position i. The three alternatives start with different letters, so at
\* most one applies; [^/]+ must stop at the next "/", so it is the whole run; the
\* optional "problem/" is tried first and given up when no [A-Za-z0-9] follows it.
CodeforcesAt(s, i) ==
    IF ~LitAt(s, i, LIT_codeforces) THEN NoMatch
    ELSE LET p == i + Len(LIT_codeforces)
             q == CASE LitAt(s, p, LIT_contest) -> p + Len(LIT_contest)
                    [] LitAt(s, p, LIT_group) -> p + Len(LIT_group)
                    [] LitAt(s, p, LIT_problemset_problem) -> p + Len(LIT_problemset_problem)
                    [] OTHER -> 0
         IN IF q = 0 \/ ~LitAt(s, q, <<"/">>) \/ ~HasRun(s, q + 1, NotSlash) THEN NoMatch
            ELSE LET e1 == RunEnd(s, q + 1, NotSlash)
                     g1 == Slice(s, q + 1, e1)
                     r == e1 + 2
                     r2 == r + Len(LIT_problem_slash)
                 IN IF ~LitAt(s, e1 + 1, <<"/">>) THEN NoMatch
                    ELSE IF LitAt(s, r, LIT_problem_slash) /\ HasRun(s, r2, AlNum)
                         THEN Match(Group(g1), Group(Run(s, r2, AlNum)))
                    ELSE IF HasRun(s, r, AlNum) THEN Match(Group(g1), Group(Run(s, r, AlNum)))
                    ELSE NoMatch

\* leetcode\.com/(?:problems|contest)/([a-zA-Z0-9-]+)(?:/problems/([a-zA-Z0-9-]+))?
\* anchored at position i. Group 1 is greedy and the optional tail may be empty, so the
\* first match found has the whole run as group 1.
LeetcodeAt(s, i) ==
    IF ~LitAt(s, i, LIT_leetcode) THEN NoMatch
    ELSE LET p == i + Len(LIT_leetcode)
             q == CASE LitAt(s, p, LIT_problems) -> p + Len(LIT_problems)
                    [] LitAt(s, p, LIT_contest) -> p + Len(LIT_contest)
                    [] OTHER -> 0
         IN IF q = 0 \/ ~LitAt(s, q, <<"/">>) \/ ~HasRun(s, q + 1, AlNumHyphen) THEN NoMatch
            ELSE LET e1 == RunEnd(s, q + 1, AlNumHyphen)
                     g1 == Slice(s, q + 1, e1)
                     t == e1 + 1 + Len(LIT_slash_problems_slash)
                 IN IF LitAt(s, e1 + 1, LIT_slash_problems_slash) /\ HasRun(s, t, AlNumHyphen)
                    THEN Match(Group(g1), Group(Run(s, t, AlNumHyphen)))
                    ELSE Match(Group(g1), NoGroup)

\* codechef\.com/(?:[^/]+/)?(?:problems/)?([A-Z0-9]+) anchored at position i. The
\* backtracking order is: both optional parts, the first only, the second only, neither.
CodeChefAt(s, i) ==
    IF ~LitAt(s, i, LIT_codechef) THEN NoMatch
    ELSE LET p == i + Len(LIT_codechef)
             e == RunEnd(s, p, NotSlash)
             first == e >= p /\ LitAt(s, e + 1, <<"/">>)
             q == e + 2
             After(a) == a + Len(LIT_problems_slash)
         IN IF first /\ LitAt(s, q, LIT_problems_slash) /\ HasRun(s, After(q), UpperDigit)
            THEN Match(Group(Run(s, After(q), UpperDigit)), NoGroup)
            ELSE IF first /\ HasRun(s, q, UpperDigit)
            THEN Match(Group(Run(s, q, UpperDigit)), NoGroup)
            ELSE IF LitAt(s, p, LIT_problems_slash) /\ HasRun(s, After(p), UpperDigit)
            THEN Match(Group(Run(s, After(p), UpperDigit)), NoGroup)
            ELSE IF HasRun(s, p, UpperDigit)
            THEN Match(Group(Run(s, p, UpperDigit)), NoGroup)
            ELSE NoMatch

\* atcoder\.jp/contests/([^/]+)/tasks/([^/]+) anchored at position i
AtCoderAt(s, i) ==
    IF ~LitAt(s, i, LIT_atcoder) THEN NoMatch
    ELSE LET p == i + Len(LIT_atcoder)
             e1 == RunEnd(s, p, NotSlash)
             t == e1 + 1 + Len(LIT_slash_tasks_slash)
         IN IF e1 >= p /\ LitAt(s, e1 + 1, LIT_slash_tasks_slash) /\ HasRun(s, t, NotSlash)
            THEN Match(Group(Slice(s, p, e1)), Group(Run(s, t, NotSlash)))
            ELSE NoMatch

PatternAt(pf, s, i) ==
    CASE pf = Codeforces -> CodeforcesAt(s, i)
      [] pf = Leetcode -> LeetcodeAt(s, i)
      [] pf = CodeChef -> CodeChefAt(s, i)
      [] pf = AtCoder -> AtCoderAt(s, i)

\* the truth value of match.group(n): None and the empty string are false
Truthy(g) == ~g.none /\ g.text # <<>>

\* the "extract" lambda of each platform
PlatformExtract(pf, m) ==
    CASE pf = Codeforces -> <<m.g1.text, m.g2.text>>
      [] pf = Leetcode ->
            <<LIT_leetcode_id, IF Truthy(m.g2) THEN m.g2.text ELSE m.g1.text>>
      [] pf = CodeChef -> <<LIT_codechef_id, m.g1.text>>
      [] pf = AtCoder -> <<m.g1.text, LastUnderscoreSegment(m.g2.text)>>

PLATFORM_REGEX == {Codeforces, Leetcode, CodeChef, AtCoder}

\* re.search(pattern, link): the match at the leftmost position that has one
ReSearch(pf, link) ==
    LET at == {i \in 1..Len(link) : PatternAt(pf, link, i).matched}
    IN IF at = {} THEN NoMatch
       ELSE PatternAt(pf, link, CHOOSE i \in at : \A k \in at : i <= k)

UnsupportedPlatform == "ValueError: Unsupported platform"
CouldNotExtract == "ValueError: Could not extract codes from link"

\* extract_codes_from_link with a sentinel pair returned where the code raises
extract_codes_from_link_sentinel(link, pf) ==
    IF pf \notin PLATFORM_REGEX THEN [raised |-> UnsupportedPlatform]
    ELSE LET match == ReSearch(pf, link)
         IN IF ~match.matched THEN [raised |-> None, codes |-> <<LIT_unknown, LIT_unknown>>]
            ELSE [raised |-> None, codes |-> PlatformExtract(pf, match)]

\* CPDojoTool.extract_codes_from_link: the pair returned, or the exception raised
extract_codes_from_link(link, pf) ==
    IF pf \notin PLATFORM_REGEX THEN [raised |-> UnsupportedPlatform]
    ELSE LET match == ReSearch(pf, link)
         IN IF ~match.matched THEN [raised |-> CouldNotExtract, link |-> link]
            ELSE [raised |-> None, codes |-> PlatformExtract(pf, match)]

-----------------------------------------------------------------------------
(* The links the extraction is checked on: a scheme, one of the four hosts *)
(* and up to MaxSegments path segments, each one of SEGMENTS.              *)

MaxSegments == 4

URL_https == <<"h", "t", "t", "p", "s", ":", "/", "/">>
HOST_codeforces == <<"c", "o", "d", "e", "f", "o", "r", "c", "e", "s", ".", "c", "o", "m">>
HOST_leetcode == <<"l", "e", "e", "t", "c", "o", "d", "e", ".", "c", "o", "m">>
HOST_codechef == <<"w", "w", "w", ".", "c", "o", "d", "e", "c", "h", "e", "f", ".", "c", "o", "m">>
HOST_atcoder == <<"a", "t", "c", "o", "d", "e", "r", ".", "j", "p">>
SEG_contest == <<"c", "o", "n", "t", "e", "s", "t">>
SEG_contests == <<"c", "o", "n", "t", "e", "s", "t", "s">>
SEG_problem == <<"p", "r", "o", "b", "l", "e", "m">>
SEG_problems == <<"p", "r", "o", "b", "l", "e", "m", "s">>
SEG_tasks == <<"t", "a", "s", "k", "s">>
SEG_1500 == <<"1", "5", "0", "0">>
SEG_C == <<"C">>
SEG_two_sum == <<"t", "w", "o", "-", "s", "u", "m">>
SEG_abc_a == <<"a", "b", "c", "_", "a">>

HOSTS == {HOST_codeforces, HOST_leetcode, HOST_codechef, HOST_atcoder}
SEGMENTS == {SEG_contest, SEG_contests, SEG_problem, SEG_problems, SEG_tasks, SEG_1500, SEG_C, SEG_two_sum, SEG_abc_a}

RECURSIVE PathsUpTo(_)
PathsUpTo(n) ==
    IF n = 0 THEN {<<>>}
    ELSE LET shorter == PathsUpTo(n - 1)
         IN shorter \cup {p \o <<"/">> \o seg : p \in shorter, seg \in SEGMENTS}

Links == {URL_https \o h \o p : h \in HOSTS, p \in PathsUpTo(MaxSegments)}

\* the platforms of the menu of run(), as a set
Platforms == {PLATFORMS[i] : i \in DOMAIN PLATFORMS}

NotRun == [none |-> TRUE]

\* the session variables of a specification that only applies a pure function
SessionUnused ==
    /\ pc = "CollectInput" /\ platform = None /\ language = None /\ problem_link = <<>>
    /\ problem_info = NotRun /\ directories = NotRun /\ created = NotRun
    /\ error = None /\ printed = <<>> /\ logged = <<>> /\ calls = <<>>
    /\ dirs = {} /\ files = {} /\ daily_log = <<>> /\ problems = <<>> /\ clock = 0
    /\ before = NotRun /\ history = <<>> /\ faults = 0

\* extraction alone: one link and one platform, then extract_codes_from_link
InitExtract ==
    /\ SessionUnused
    /\ inp \in [link : Links, platform : Platforms]
    /\ out = NotRun

Extract ==
    /\ out = NotRun
    /\ out' = extract_codes_from_link(inp.link, inp.platform)
    /\ UNCHANGED <<inp, sessionVars>>

NextExtract == Extract

SpecExtract == InitExtract /\ [][NextExtract]_vars

-----------------------------------------------------------------------------
(* ProblemInfo, file names and templates                                   *)

\* sep.join(list)
RECURSIVE StrJoin(_, _)
StrJoin(list, sep) ==
    IF list = <<>> THEN <<>>
    ELSE IF Len(list) = 1 THEN list[1]
    ELSE list[1] \o sep \o StrJoin(Tail(list), sep)

\* s.split(',')
RECURSIVE SplitComma(_)
SplitComma(s) ==
    LET commas == {i \in DOMAIN s : s[i] = ","}
    IN IF commas = {} THEN <<s>>
       ELSE LET c == CHOOSE i \in commas : \A k \in commas : i <= k
            IN <<Slice(s, 1, c - 1)>> \o SplitComma(Slice(s, c + 1, Len(s)))

\* s.strip(), for the blank as the only whitespace
RECURSIVE Strip(_)
Strip(s) ==
    IF s = <<>> THEN s
    ELSE IF Head(s) = " " THEN Strip(Tail(s))
    ELSE IF s[Len(s)] = " " THEN Strip(Slice(s, 1, Len(s) - 1))
    ELSE s

\* strftime / isoformat of the logical time t, in decimal
FormatTime(t) ==
    IF t < 10 THEN <<DIGITS[t + 1]>> ELSE <<DIGITS[(t \div 10) + 1], DIGITS[(t % 10) + 1]>>

TXT_None == <<"N", "o", "n", "e">>
TXT_Unknown == <<"U", "n", "k", "n", "o", "w", "n">>
TXT_NotSpecified == <<"N", "o", "t", " ", "s", "p", "e", "c", "i", "f", "i", "e", "d">>
TXT_CommaBlank == <<",", " ">>
EXT_md == <<".", "m", "d">>
EXT_txt == <<".", "t", "x", "t">>

\* the dataclass ProblemInfo
ProblemInfo(pf, contest_code, problem_code, link, difficulty, tags, created_date) ==
    [platform |-> pf, contest_code |-> contest_code, problem_code |-> problem_code,
     problem_link |-> link, difficulty |-> difficulty, tags |-> tags,
     created_date |-> created_date]

\* one line of a text: fixed words followed by an interpolated string
Line(words, value) == [words |-> words, value |-> value]

\* ", ".join(problem_info.tags) if problem_info.tags else 'None'
TagsText(info) == IF info.tags # <<>> THEN StrJoin(info.tags, TXT_CommaBlank) ELSE TXT_None

\* comment_styles.get(language, comment_styles["Python"])
CommentStyle(lang) ==
    IF lang = "Python" THEN [multi_start |-> "'''", multi_end |-> "'''"]
    ELSE IF lang \in {"C++", "Java", "JavaScript", "Go", "Kotlin", "Rust"}
    THEN [multi_start |-> "/*", multi_end |-> "*/"]
    ELSE [multi_start |-> "'''", multi_end |-> "'''"]

\* CPDojoTemplate.generate_metadata_comment
generate_metadata_comment(info, lang) ==
    <<Line(CommentStyle(lang).multi_start, <<>>),
      Line("Problem Code: ", info.problem_code),
      Line("Platform: ", info.platform),
      Line("Contest Code: ", info.contest_code),
      Line("Link: ", info.problem_link),
      Line("Difficulty: ", IF info.difficulty # <<>> THEN info.difficulty ELSE TXT_Unknown),
      Line("Tags: ", TagsText(info)),
      Line("Created: ", FormatTime(info.created_date)),
      Line(CommentStyle(lang).multi_end, <<>>)>>

PythonSkeleton ==
    <<Line("", <<>>), Line("", <<>>),
      Line("def solve():", <<>>),
      Line("    # TODO: Implement your solution here", <<>>),
      Line("    pass", <<>>),
      Line("", <<>>),
      Line("def main():", <<>>),
      Line("    # Read input", <<>>),
      Line("    T = int(input())  # Number of test cases", <<>>),
      Line("    for _ in range(T):", <<>>),
      Line("        solve()", <<>>),
      Line("", <<>>),
      Line("if __name__ == \"__main__\":", <<>>),
      Line("    main()", <<>>)>>

CppSkeleton ==
    <<Line("", <<>>),
      Line("#include <bits/stdc++.h>", <<>>),
      Line("using namespace std;", <<>>),
      Line("", <<>>),
      Line("void solve() {", <<>>),
      Line("    // TODO: Implement your solution here", <<>>),
      Line("}", <<>>),
      Line("", <<>>),
      Line("int main() {", <<>>),
      Line("    ios::sync_with_stdio(0);", <<>>),
      Line("    cin.tie(0);", <<>>),
      Line("    ", <<>>),
      Line("    int T;", <<>>),
      Line("    cin >> T;", <<>>),
      Line("    while(T--) {", <<>>),
      Line("        solve();", <<>>),
      Line("    }", <<>>),
      Line("    return 0;", <<>>),
      Line("}", <<>>)>>

\* CPDojoTemplate.get_language_template: templates.get(language, "")
get_language_template(lang, info) ==
    LET metadata == generate_metadata_comment(info, lang)
    IN CASE lang = "Python" -> metadata \o PythonSkeleton
         [] lang = "C++" -> metadata \o CppSkeleton
         [] OTHER -> <<>>

\* CPDojoTool._get_thought_template
get_thought_template(info) ==
    <<Line("# ", info.platform), Line(" - Problem ", info.problem_code),
      Line("", <<>>),
      Line("## Problem Link", <<>>),
      Line("", info.problem_link),
      Line("", <<>>),
      Line("## Initial Thoughts", <<>>),
      Line("- [ ] First approach", <<>>),
      Line("- [ ] Edge cases to consider", <<>>),
      Line("- [ ] Possible optimizations", <<>>),
      Line("", <<>>),
      Line("## Approach", <<>>),
      Line("1. Describe your approach here", <<>>),
      Line("", <<>>),
      Line("## Complexity Analysis", <<>>),
      Line("- Time Complexity: ", <<>>),
      Line("- Space Complexity: ", <<>>),
      Line("", <<>>),
      Line("## Key Learnings", <<>>),
      Line("- What did you learn from this problem?", <<>>),
      Line("- Any specific techniques or patterns used?", <<>>),
      Line("", <<>>),
      Line("## Tags", <<>>),
      Line("", TagsText(info))>>

UnknownFileType == "ValueError: Unknown file type"

\* generate_filename with the problem code lower-cased like the other two parts
generate_filename_lowercased(info, lang, file_type) ==
    LET stem == StrLower(info.platform) \o <<"_">> \o StrLower(info.contest_code)
                \o <<"_">> \o StrLower(info.problem_code)
    IN CASE file_type = "solution" -> [raised |-> None, name |-> stem \o LANGUAGES[lang]]
         [] file_type = "thought" -> [raised |-> None, name |-> stem \o EXT_md]
         [] file_type = "link" -> [raised |-> None, name |-> stem \o EXT_txt]
         [] OTHER -> [raised |-> UnknownFileType]

\* CPDojoTool.generate_filename: the name, or the exception raised
generate_filename(info, lang, file_type) ==
    LET platform_id == StrLower(info.platform)
        contest_id == StrLower(info.contest_code)
        problem_id == info.problem_code
        stem == platform_id \o <<"_">> \o contest_id \o <<"_">> \o problem_id
    IN CASE file_type = "solution" -> [raised |-> None, name |-> stem \o LANGUAGES[lang]]
         [] file_type = "thought" -> [raised |-> None, name |-> stem \o EXT_md]
         [] file_type = "link" -> [raised |-> None, name |-> stem \o EXT_txt]
         [] OTHER -> [raised |-> UnknownFileType]

\* paths are sequences of components
BASE_DIR == <<<<"M", "y", "-", "C", "P", "-", "D", "o", "j", "o">>>>
DIR_Solutions == <<"S", "o", "l", "u", "t", "i", "o", "n", "s">>
DIR_Practiced == <<"P", "r", "a", "c", "t", "i", "c", "e", "d", "-", "P", "r", "o", "b", "l", "e", "m", "s">>
DIR_Questions == <<"Q", "u", "e", "s", "t", "i", "o", "n", "s">>
DIR_Thought == <<"T", "h", "o", "u", "g", "h", "t", "-", "P", "r", "o", "c", "e", "s", "s">>

\* the dirs dictionary of create_problem_directories
ProblemDirs(info) ==
    [solutions |-> BASE_DIR \o <<DIR_Solutions, info.platform>>,
     questions |-> BASE_DIR \o <<DIR_Practiced, info.platform, DIR_Questions>>,
     thought_process |-> BASE_DIR \o <<DIR_Practiced, info.platform, DIR_Thought>>]

\* the order in which dirs.values() is walked
DirOrder(d) == <<d.solutions, d.questions, d.thought_process>>

\* Path.mkdir(parents=True, exist_ok=True): the directory and all its ancestors
MkdirParents(path) == {SubSeq(path, 1, n) : n \in 1..Len(path)}

\* the three writes of create_problem_files, in order: path and content
ProblemWrites(info, lang, d) ==
    <<[path |-> Append(d.solutions, generate_filename(info, lang, "solution").name),
       text |-> get_language_template(lang, info)],
      [path |-> Append(d.solutions, generate_filename(info, lang, "link").name),
       text |-> <<Line("", info.problem_link)>>],
      [path |-> Append(d.thought_process, generate_filename(info, lang, "thought").name),
       text |-> get_thought_template(info)]>>

\* the log_entry of update_daily_log
LogEntry(info, now) ==
    <<Line("### ", FormatTime(now)),
      Line("- **Platform**: ", info.platform),
      Line("- **Contest Code**: ", info.contest_code),
      Line("- **Problem Code**: ", info.problem_code),
      Line("- [Problem Link]", info.problem_link),
      Line("- **Tags**: ", TagsText(info)),
      Line("- **Difficulty**: ",
           IF info.difficulty # <<>> THEN info.difficulty ELSE TXT_NotSpecified),
      Line("", <<>>)>>

\* json.dumps(tags): the list encoded as text
JsonDumps(tags) ==
    <<"[">> \o StrJoin([i \in DOMAIN tags |-> <<"\"">> \o tags[i] \o <<"\"">>], TXT_CommaBlank)
    \o <<"]">>

\* the row INSERT INTO problems adds; status takes its DEFAULT
ProblemRow(id, info, now) ==
    [id |-> id, platform |-> info.platform, contest_code |-> info.contest_code,
     problem_code |-> info.problem_code, problem_link |-> info.problem_link,
     difficulty |-> info.difficulty, tags |-> JsonDumps(info.tags),
     created_date |-> FormatTime(now), status |-> "PENDING"]

\* Path.write_text: the file at path holds text, whatever it held before
WriteText(fs, path, text) ==
    {f \in fs : f.path # path} \cup {[path |-> path, text |-> text]}

\* the id an INTEGER PRIMARY KEY column gets: one more than the largest in the table
NextRowId(rows) ==
    IF rows = <<>> THEN 1
    ELSE 1 + (CHOOSE m \in {rows[i].id : i \in DOMAIN rows} :
                \A i \in DOMAIN rows : rows[i].id <= m)

-----------------------------------------------------------------------------
(* A session: one process that constructs CPDojoTool and calls run().      *)

MaxSessions == 2
MaxFaultySessions == 1
MaxFaults == 1

LINK_cf == <<"h", "t", "t", "p", "s", ":", "/", "/", "c", "o", "d", "e", "f", "o", "r", "c", "e", "s", ".", "c", "o", "m", "/", "c", "o", "n", "t", "e", "s", "t", "/", "1", "5", "0", "0", "/", "p", "r", "o", "b", "l", "e", "m", "/", "C">>
LINK_cf_contest_page == <<"h", "t", "t", "p", "s", ":", "/", "/", "c", "o", "d", "e", "f", "o", "r", "c", "e", "s", ".", "c", "o", "m", "/", "c", "o", "n", "t", "e", "s", "t", "/", "1", "5", "0", "0">>
LINK_cf_unknown == <<"h", "t", "t", "p", "s", ":", "/", "/", "c", "o", "d", "e", "f", "o", "r", "c", "e", "s", ".", "c", "o", "m", "/", "c", "o", "n", "t", "e", "s", "t", "/", "u", "n", "k", "n", "o", "w", "n", "/", "p", "r", "o", "b", "l", "e", "m", "/", "A">>
LINK_lc == <<"h", "t", "t", "p", "s", ":", "/", "/", "l", "e", "e", "t", "c", "o", "d", "e", ".", "c", "o", "m", "/", "p", "r", "o", "b", "l", "e", "m", "s", "/", "t", "w", "o", "-", "s", "u", "m">>
LINK_atcoder == <<"h", "t", "t", "p", "s", ":", "/", "/", "a", "t", "c", "o", "d", "e", "r", ".", "j", "p", "/", "c", "o", "n", "t", "e", "s", "t", "s", "/", "a", "b", "c", "1", "2", "3", "/", "t", "a", "s", "k", "s", "/", "a", "b", "c", "1", "2", "3", "_", "a", "?", "l", "a", "n", "g", "=", "e", "n">>

\* the links, languages and optional metadata a session is given
SessionLinks == {LINK_cf, LINK_cf_contest_page, LINK_cf_unknown, LINK_lc, LINK_atcoder}
SessionLanguages == {"Python", "Java"}
SessionMetadata ==
    {[difficulty |-> <<>>, tags_input |-> <<>>],
     [difficulty |-> <<"8", "0", "0">>, tags_input |-> <<"d", "p", ",", " ", "m", "a", "t", "h">>]}

\* [tag.strip() for tag in tags_input.split(',')] if tags_input else []
ParseTags(tags_input) ==
    IF tags_input = <<>> THEN <<>>
    ELSE LET parts == SplitComma(tags_input)
         IN [i \in DOMAIN parts |-> Strip(parts[i])]

Snapshot == [dirs |-> dirs, files |-> files, daily_log |-> daily_log, problems |-> problems]

\* CPDojoTool() has been constructed (lines 156-187): My-CP-Dojo exists and table
\* problems is there and empty. _setup_logging opens cp_dojo.log inside My-CP-Dojo before
\* _ensure_base_directory runs, so the construction succeeds only where the directory
\* already exists.
Init ==
    /\ pc = "CollectInput"
    /\ platform = None /\ language = None /\ problem_link = <<>>
    /\ problem_info = NotRun /\ directories = NotRun /\ created = NotRun
    /\ error = None /\ printed = <<>> /\ logged = <<>> /\ calls = <<>>
    /\ dirs = {BASE_DIR} /\ files = {} /\ daily_log = <<>> /\ problems = <<>>
    /\ clock = 0
    /\ before = [dirs |-> {BASE_DIR}, files |-> {}, daily_log |-> <<>>, problems |-> <<>>]
    /\ history = <<>> /\ faults = 0
    /\ inp = NotRun /\ out = NotRun

\* an exception leaves run(): the process ends with a traceback
Raise(e) ==
    /\ pc' = "Raised"
    /\ error' = e

\* run(), lines 339-344: the welcome line, the two menus and the link; at most n
\* sessions are run
CollectInputUpTo(n) ==
    /\ pc = "CollectInput"
    /\ Len(history) < n
    /\ printed' = <<Line("Welcome to My-CP-Dojo CLI Tool!", <<>>)>>
    /\ platform' \in Platforms
    /\ language' \in SessionLanguages
    /\ \E pasted \in SessionLinks : problem_link' = Strip(pasted)
    /\ before' = Snapshot
    /\ pc' = "extract_codes_from_link"
    /\ UNCHANGED <<problem_info, directories, created, error, logged, calls, dirs, files,
                   daily_log, problems, clock, history, faults, inp, out>>

CollectInput == CollectInputUpTo(MaxSessions)

CollectInputFaults == CollectInputUpTo(MaxFaultySessions)

\* run(), lines 346-364: the extraction, the "unknown" exit, the optional metadata and
\* the ProblemInfo
ExtractCodes ==
    /\ pc = "extract_codes_from_link"
    /\ calls' = Append(calls, "extract_codes_from_link")
    /\ LET r == extract_codes_from_link(problem_link, platform)
       IN IF r.raised # None
          THEN /\ Raise(r.raised)
               /\ UNCHANGED <<problem_info, printed, clock>>
          ELSE IF r.codes[1] = LIT_unknown
          THEN /\ printed' = Append(printed,
                      Line("Could not extract contest and problem codes. Exiting...", <<>>))
               /\ pc' = "Returned"
               /\ UNCHANGED <<problem_info, error, clock>>
          ELSE /\ \E m \in SessionMetadata :
                      problem_info' = ProblemInfo(platform, r.codes[1], r.codes[2],
                                                  problem_link, Strip(m.difficulty),
                                                  ParseTags(Strip(m.tags_input)), clock)
               /\ clock' = clock + 1
               /\ pc' = "create_problem_directories"
               /\ UNCHANGED <<error, printed>>
    /\ UNCHANGED <<platform, language, problem_link, directories, created, logged, dirs,
                   files, daily_log, problems, before, history, faults, inp, out>>

\* the directories that exist after the first n mkdir calls of the loop
RECURSIVE DirsAfter(_, _, _)
DirsAfter(ds, order, n) ==
    IF n = 0 THEN ds ELSE DirsAfter(ds, order, n - 1) \cup MkdirParents(order[n])

\* create_problem_directories (called at line 366), every mkdir succeeding
CreateProblemDirectories ==
    /\ pc = "create_problem_directories"
    /\ calls' = Append(calls, "create_problem_directories")
    /\ dirs' = DirsAfter(dirs, DirOrder(ProblemDirs(problem_info)), 3)
    /\ directories' = ProblemDirs(problem_info)
    /\ pc' = "create_problem_files"
    /\ UNCHANGED <<platform, language, problem_link, problem_info, created, error, printed,
                   logged, files, daily_log, problems, clock, before, history, faults,
                   inp, out>>

\* create_problem_directories when one mkdir of the loop fails: OSError leaves run(),
\* the directories made before it stay
CreateProblemDirectoriesFails ==
    /\ pc = "create_problem_directories"
    /\ faults < MaxFaults
    /\ faults' = faults + 1
    /\ calls' = Append(calls, "create_problem_directories")
    /\ \E k \in 1..3 : dirs' = DirsAfter(dirs, DirOrder(ProblemDirs(problem_info)), k - 1)
    /\ Raise("OSError: mkdir")
    /\ UNCHANGED <<platform, language, problem_link, problem_info, directories, created,
                   printed, logged, files, daily_log, problems, clock, before, history,
                   inp, out>>

\* the files that exist after the first n writes
RECURSIVE FilesAfter(_, _, _)
FilesAfter(fs, writes, n) ==
    IF n = 0 THEN fs
    ELSE WriteText(FilesAfter(fs, writes, n - 1), writes[n].path, writes[n].text)

\* the last component of a path
PathName(path) == path[Len(path)]

\* create_problem_files (called at line 367), every write_text succeeding
CreateProblemFiles ==
    /\ pc = "create_problem_files"
    /\ calls' = Append(calls, "create_problem_files")
    /\ LET writes == ProblemWrites(problem_info, language, directories)
       IN /\ files' = FilesAfter(files, writes, 3)
          /\ created' = [solution_file |-> PathName(writes[1].path),
                         link_file |-> PathName(writes[2].path),
                         thought_file |-> PathName(writes[3].path)]
    /\ pc' = "update_daily_log"
    /\ UNCHANGED <<platform, language, problem_link, problem_info, directories, error,
                   printed, logged, dirs, daily_log, problems, clock, before, history,
                   faults, inp, out>>

\* create_problem_files when the k-th write_text fails: OSError leaves run(). Either the
\* file could not be opened, or it was opened, which truncates it, and the write failed.
CreateProblemFilesFails ==
    /\ pc = "create_problem_files"
    /\ faults < MaxFaults
    /\ faults' = faults + 1
    /\ calls' = Append(calls, "create_problem_files")
    /\ LET writes == ProblemWrites(problem_info, language, directories)
       IN \E k \in 1..3 :
             \/ files' = FilesAfter(files, writes, k - 1)
             \/ files' = WriteText(FilesAfter(files, writes, k - 1), writes[k].path, <<>>)
    /\ Raise("OSError: write_text")
    /\ UNCHANGED <<platform, language, problem_link, problem_info, directories, created,
                   printed, logged, dirs, daily_log, problems, clock, before, history,
                   inp, out>>

\* update_daily_log with the log opened for writing, not for appending
UpdateDailyLogRewrites ==
    /\ pc = "update_daily_log"
    /\ calls' = Append(calls, "update_daily_log")
    /\ daily_log' = <<LogEntry(problem_info, clock)>>
    /\ clock' = clock + 1
    /\ logged' = Append(logged, Line("INFO Daily log updated with ", problem_info.problem_code))
    /\ pc' = "store_problem_info"
    /\ UNCHANGED <<platform, language, problem_link, problem_info, directories, created,
                   error, printed, dirs, files, problems, before, history, faults, inp, out>>

\* update_daily_log (called at line 368): open(log_path, "a") and one write
UpdateDailyLog ==
    /\ pc = "update_daily_log"
    /\ calls' = Append(calls, "update_daily_log")
    /\ daily_log' = Append(daily_log, LogEntry(problem_info, clock))
    /\ clock' = clock + 1
    /\ logged' = Append(logged, Line("INFO Daily log updated with ", problem_info.problem_code))
    /\ pc' = "store_problem_info"
    /\ UNCHANGED <<platform, language, problem_link, problem_info, directories, created,
                   error, printed, dirs, files, problems, before, history, faults, inp, out>>

\* update_daily_log when the log cannot be opened for appending: OSError leaves run()
UpdateDailyLogFails ==
    /\ pc = "update_daily_log"
    /\ faults < MaxFaults
    /\ faults' = faults + 1
    /\ calls' = Append(calls, "update_daily_log")
    /\ clock' = clock + 1
    /\ Raise("OSError: daily_log.md")
    /\ UNCHANGED <<platform, language, problem_link, problem_info, directories, created,
                   printed, logged, dirs, files, daily_log, problems, before, history,
                   inp, out>>

\* store_problem_info (called at line 369): the INSERT, committed when the with block
\* is left
StoreProblemInfo ==
    /\ pc = "store_problem_info"
    /\ calls' = Append(calls, "store_problem_info")
    /\ problems' = Append(problems, ProblemRow(NextRowId(problems), problem_info, clock))
    /\ clock' = clock + 1
    /\ pc' = "open_vscode"
    /\ UNCHANGED <<platform, language, problem_link, problem_info, directories, created,
                   error, printed, logged, dirs, files, daily_log, before, history, faults,
                   inp, out>>

\* store_problem_info whose failure takes the log block of the session back
StoreProblemInfoFailsRollsBack ==
    /\ pc = "store_problem_info"
    /\ faults < MaxFaults
    /\ faults' = faults + 1
    /\ calls' = Append(calls, "store_problem_info")
    /\ daily_log' = before.daily_log
    /\ Raise("sqlite3.Error")
    /\ UNCHANGED <<platform, language, problem_link, problem_info, directories, created,
                   printed, logged, dirs, files, problems, clock, before, history,
                   inp, out>>

\* store_problem_info when connect or the INSERT raises: the with block rolls back and
\* sqlite3.Error leaves run()
StoreProblemInfoFails ==
    /\ pc = "store_problem_info"
    /\ faults < MaxFaults
    /\ faults' = faults + 1
    /\ calls' = Append(calls, "store_problem_info")
    /\ Raise("sqlite3.Error")
    /\ UNCHANGED <<platform, language, problem_link, problem_info, directories, created,
                   printed, logged, dirs, files, daily_log, problems, clock, before,
                   history, inp, out>>

\* what subprocess.run(["code", dir], check=True) does: the editor starts, the command
\* exits with an error, or there is no such command
EditorOutcomes == {"started", "CalledProcessError", "FileNotFoundError"}

\* the except clause of open_vscode: the exceptions it catches
OpenVSCodeCatches == {"CalledProcessError"}

\* open_vscode (called at line 370)
OpenVSCode ==
    /\ pc = "open_vscode"
    /\ calls' = Append(calls, "open_vscode")
    /\ \E outcome \in EditorOutcomes :
          IF outcome = "started"
          THEN /\ logged' = Append(logged, Line("INFO Opened VSCode in ", directories.solutions))
               /\ pc' = "report"
               /\ UNCHANGED <<printed, error>>
          ELSE IF outcome \in OpenVSCodeCatches
          THEN /\ logged' = Append(logged, Line("ERROR Failed to open VSCode", <<>>))
               /\ printed' = Append(printed, Line("Error: Could not open VSCode. Please make sure it's installed and 'code' command is available.", <<>>))
               /\ pc' = "report"
               /\ UNCHANGED error
          ELSE /\ Raise(outcome)
               /\ UNCHANGED <<printed, logged>>
    /\ UNCHANGED <<platform, language, problem_link, problem_info, directories, created,
                   dirs, files, daily_log, problems, clock, before, history, faults, inp, out>>

\* run(), lines 372-377: the summary
Report ==
    /\ pc = "report"
    /\ printed' = printed \o
          <<Line("Setup complete! Files created in ", directories.solutions),
            Line("Created files:", <<>>),
            Line("1. Solution template: ", created.solution_file),
            Line("2. Problem link: ", created.link_file),
            Line("3. Thought process: ", created.thought_file),
            Line("You can now start solving the problem in VSCode!", <<>>)>>
    /\ pc' = "SetupComplete"
    /\ UNCHANGED <<platform, language, problem_link, problem_info, directories, created,
                   error, logged, calls, dirs, files, daily_log, problems, clock, before,
                   history, faults, inp, out>>

Ended == {"SetupComplete", "Returned", "Raised"}

\* the process ends; the next invocation constructs CPDojoTool again (__init__, lines
\* 156-187: the base directory and the table are made if absent) and is about to run()
Exit ==
    /\ pc \in Ended
    /\ history' = Append(history, [outcome |-> pc, info |-> problem_info])
    /\ dirs' = dirs \cup {BASE_DIR}
    /\ pc' = "CollectInput"
    /\ platform' = None /\ language' = None /\ problem_link' = <<>>
    /\ problem_info' = NotRun /\ directories' = NotRun /\ created' = NotRun
    /\ error' = None /\ printed' = <<>> /\ logged' = <<>> /\ calls' = <<>>
    /\ before' = [dirs |-> dirs', files |-> files, daily_log |-> daily_log,
                  problems |-> problems]
    /\ UNCHANGED <<files, daily_log, problems, clock, faults, inp, out>>

\* sessions on a filesystem and a database that do not fail
Next ==
    \/ CollectInput
    \/ ExtractCodes
    \/ CreateProblemDirectories
    \/ CreateProblemFiles
    \/ UpdateDailyLog
    \/ StoreProblemInfo
    \/ OpenVSCode
    \/ Report
    \/ Exit

Spec == Init /\ [][Next]_vars

\* sessions in which the filesystem and the database may fail, MaxFaults times in all
NextFaults ==
    \/ CollectInputFaults
    \/ ExtractCodes
    \/ CreateProblemDirectories
    \/ CreateProblemDirectoriesFails
    \/ CreateProblemFiles
    \/ CreateProblemFilesFails
    \/ UpdateDailyLog
    \/ UpdateDailyLogFails
    \/ StoreProblemInfo
    \/ StoreProblemInfoFails
    \/ OpenVSCode
    \/ Report
    \/ Exit

SpecFaults == Init /\ [][NextFaults]_vars

-----------------------------------------------------------------------------
(* File names alone: two problems, a language and a file kind, then        *)
(* generate_filename on both.                                              *)

ID_1500 == <<"1", "5", "0", "0">>
ID_abc == <<"a", "b", "c">>
ID_ABC == <<"A", "B", "C">>
ID_Abc == <<"A", "b", "c">>
ID_abc_1 == <<"a", "b", "c", "_", "1">>
ID_1_C == <<"1", "_", "C">>
ID_1 == <<"1">>
ID_C == <<"C">>
ID_c == <<"c">>
ID_two_sum == <<"t", "w", "o", "-", "s", "u", "m">>

\* contest and problem codes: some differ in letter case only, some hold underscores
ContestCodes == {ID_1500, ID_abc, ID_ABC, ID_Abc, ID_abc_1, LIT_leetcode_id}
ProblemCodes == {ID_C, ID_c, ID_1, ID_1_C, ID_two_sum}
FileKinds == {"solution", "link", "thought"}

Problems ==
    {ProblemInfo(pf, c, p, <<>>, <<>>, <<>>, 0) :
        pf \in Platforms, c \in ContestCodes, p \in ProblemCodes}

InitFilename ==
    /\ SessionUnused
    /\ inp \in [a : Problems, b : Problems, language : {"Python", "C++"}, kind : FileKinds]
    /\ out = NotRun

GenerateFilename ==
    /\ out = NotRun
    /\ out' = [a |-> generate_filename(inp.a, inp.language, inp.kind),
               b |-> generate_filename(inp.b, inp.language, inp.kind)]
    /\ UNCHANGED <<inp, sessionVars>>

NextFilename == GenerateFilename

SpecFilename == InitFilename /\ [][NextFilename]_vars

-----------------------------------------------------------------------------
(* The claims.                                                             *)

IsPrefix(s, t) == Len(s) <= Len(t) /\ SubSeq(t, 1, Len(s)) = s

Paths(fs) == {f.path : f \in fs}

\* the session has called the extraction and it has returned or raised
Extracted == pc \notin {"CollectInput", "extract_codes_from_link"}

\* C1: a session whose link does not match the pattern of the chosen platform ends at
\* the extraction with the "could not extract" error, having made no other call, and
\* the directories, the files, the daily log and the problems table are what they were
\* when the session started.
C1_NoMatchAbortsSession ==
    (Extracted /\ ~ReSearch(platform, problem_link).matched) =>
        /\ pc = "Raised"
        /\ error = CouldNotExtract
        /\ calls = <<"extract_codes_from_link">>
        /\ dirs = before.dirs
        /\ files = before.files
        /\ daily_log = before.daily_log
        /\ problems = before.problems

\* a session aborted at the extraction, after an earlier session had left artifacts
C1_Witness ==
    /\ pc = "Raised"
    /\ error = CouldNotExtract
    /\ ~ReSearch(platform, problem_link).matched
    /\ files # {}
    /\ daily_log # <<>>
    /\ problems # <<>>

AllSucceeded == \A i \in DOMAIN history : history[i].outcome = "SetupComplete"

\* the sessions that have reached their success report, the running one included
Succeeded ==
    [i \in 1..(Len(history) + (IF pc = "SetupComplete" THEN 1 ELSE 0)) |->
        IF i <= Len(history) THEN history[i].info ELSE problem_info]

\* the block and the row of session i are the i-th of the log and of the table
LedgerInCallOrder(done) ==
    /\ Len(daily_log) = Len(done)
    /\ Len(problems) = Len(done)
    /\ \A i \in DOMAIN done :
          /\ \E t \in 0..clock : daily_log[i] = LogEntry(done[i], t)
          /\ \E t \in 0..clock : problems[i] = ProblemRow(i, done[i], t)

\* C2: when every session so far has succeeded, the log holds exactly one block and the
\* table exactly one row per session, in the order of the sessions; and no step ever
\* removes or rewrites a block or a row.
C2_LedgerAppendMonotonic ==
    /\ [](AllSucceeded /\ pc \in {"CollectInput", "SetupComplete"}
            => LedgerInCallOrder(Succeeded))
    /\ [][IsPrefix(daily_log, daily_log') /\ IsPrefix(problems, problems')]_vars

\* two successful sessions, and the ledger holds two blocks and two rows
C2_Witness ==
    /\ Len(history) = 1
    /\ AllSucceeded
    /\ pc = "SetupComplete"
    /\ Len(daily_log) = 2
    /\ Len(problems) = 2
    /\ daily_log[1] # daily_log[2]

\* the paths the three artifacts of the running session are specified to have
SpecifiedPaths ==
    [solution |-> Append(ProblemDirs(problem_info).solutions,
                         generate_filename(problem_info, language, "solution").name),
     link |-> Append(ProblemDirs(problem_info).questions,
                     generate_filename(problem_info, language, "link").name),
     thought |-> Append(ProblemDirs(problem_info).thought_process,
                        generate_filename(problem_info, language, "thought").name)]

\* C3: once create_problem_files has returned, the solution file is in
\* Solutions/<Platform>/, the link file in Practiced-Problems/<Platform>/Questions/ and
\* the thought file in Practiced-Problems/<Platform>/Thought-Process/, and the call has
\* added no other file.
C3_OneFilePerBranch ==
    pc = "update_daily_log" =>
        /\ {SpecifiedPaths.solution, SpecifiedPaths.link, SpecifiedPaths.thought}
              \subseteq Paths(files)
        /\ Paths(files) \ Paths(before.files)
              \subseteq {SpecifiedPaths.solution, SpecifiedPaths.link, SpecifiedPaths.thought}

EditorErrorLine ==
    Line("Error: Could not open VSCode. Please make sure it's installed and 'code' command is available.", <<>>)

\* the editor launch of the running session failed: the command is absent, or it
\* exited with an error
EditorLaunchFailed ==
    \/ error = "FileNotFoundError"
    \/ \E i \in DOMAIN printed : printed[i] = EditorErrorLine

\* C4: a session whose editor launch failed still ends with the setup-complete summary,
\* and its artifact files, its log block and its table row remain.
C4_EditorFailureNonFatal ==
    (pc \in Ended /\ EditorLaunchFailed) =>
        /\ pc = "SetupComplete"
        /\ \E i \in DOMAIN printed : printed[i].words = "Setup complete! Files created in "
        /\ \A i \in 1..3 :
              LET w == ProblemWrites(problem_info, language, directories)[i]
              IN [path |-> w.path, text |-> w.text] \in files
        /\ Len(daily_log) = Len(before.daily_log) + 1
        /\ Len(problems) = Len(before.problems) + 1

\* the triple that names a problem
Triple(info) == <<info.platform, info.contest_code, info.problem_code>>

\* C5, as claimed: two problems whose (platform, contest_id, problem_id) differ get
\* different file names, and the same problem gets the same name.
C5_CollisionFree ==
    out # NotRun =>
        (Triple(inp.a) # Triple(inp.b) <=> out.a.name # out.b.name)

\* C5, amended: when neither problem_id holds an underscore, two problems get the same
\* file name exactly when they agree in platform, in contest_id up to letter case, and
\* in problem_id.
C5_CollisionFreeUpToCase ==
    (/\ out # NotRun
     /\ "_" \notin Range(inp.a.problem_code)
     /\ "_" \notin Range(inp.b.problem_code)) =>
        (out.a.name = out.b.name <=>
            /\ inp.a.platform = inp.b.platform
            /\ StrLower(inp.a.contest_code) = StrLower(inp.b.contest_code)
            /\ inp.a.problem_code = inp.b.problem_code)

\* two problems without underscores in their problem ids whose contest ids differ, and
\* not only in letter case: their names differ
C5_Witness ==
    /\ out # NotRun
    /\ "_" \notin Range(inp.a.problem_code)
    /\ inp.a.platform = inp.b.platform
    /\ inp.a.problem_code = inp.b.problem_code
    /\ StrLower(inp.a.contest_code) # StrLower(inp.b.contest_code)
    /\ out.a.name # out.b.name

\* links that look like a problem link of the platform but lack a required segment: a
\* contest page, or a link that stops before the problem or task code
LinksMissingSegment(pf) ==
    CASE pf = Codeforces ->
            {URL_https \o HOST_codeforces \o <<"/">> \o SEG_contest \o <<"/">> \o SEG_1500,
             URL_https \o HOST_codeforces \o <<"/">> \o SEG_contest \o <<"/">> \o SEG_1500
                \o <<"/">> \o SEG_problem}
      [] pf = Leetcode ->
            {URL_https \o HOST_leetcode \o <<"/">> \o SEG_contest \o <<"/">> \o SEG_1500,
             URL_https \o HOST_leetcode \o <<"/">> \o SEG_problems}
      [] pf = CodeChef ->
            {URL_https \o HOST_codechef \o <<"/">> \o SEG_problems,
             URL_https \o HOST_codechef \o <<"/">> \o SEG_C \o <<"/">> \o SEG_problems}
      [] pf = AtCoder ->
            {URL_https \o HOST_atcoder \o <<"/">> \o SEG_contests \o <<"/">> \o SEG_1500,
             URL_https \o HOST_atcoder \o <<"/">> \o SEG_contests \o <<"/">> \o SEG_1500
                \o <<"/">> \o SEG_tasks}

\* C6: the extraction of a link that lacks a required segment raises the "could not
\* extract" error and returns no pair.
C6_MalformedLinkRaises ==
    (out # NotRun /\ inp.link \in LinksMissingSegment(inp.platform)) =>
        out.raised = CouldNotExtract

\* a string that is not empty and holds only letters, digits, "_" and "-"
SafeToken(s) ==
    /\ s # <<>>
    /\ \A i \in DOMAIN s : s[i] \in Upper \cup Lower \cup Digit \cup {"_", "-"}

\* C7: the ProblemInfo a session builds has a contest code and a problem code that are
\* safe tokens.
C7_SafeIdentifiers ==
    problem_info # NotRun =>
        SafeToken(problem_info.contest_code) /\ SafeToken(problem_info.problem_code)

\* every hyphen of s rewritten to an underscore
HyphensToUnderscores(s) == [i \in DOMAIN s |-> IF s[i] = "-" THEN "_" ELSE s[i]]

\* the slug the Leetcode pattern captures: group 2 when it took part, else group 1
CapturedSlug(link) ==
    LET m == ReSearch(Leetcode, link)
    IN IF Truthy(m.g2) THEN m.g2.text ELSE m.g1.text

\* C8: for Leetcode the extraction returns the sentinel and the captured slug with its
\* hyphens rewritten to underscores.
C8_LeetcodeSlugRewritten ==
    (out # NotRun /\ inp.platform = Leetcode /\ out.raised = None) =>
        out.codes = <<LIT_leetcode_id, HyphensToUnderscores(CapturedSlug(inp.link))>>

\* C9: the solution file create_problem_files wrote is not empty and begins with the
\* metadata block in the comment syntax of the language.
C9_SolutionBeginsWithMetadata ==
    pc = "update_daily_log" =>
        \E f \in files :
            /\ f.path = Append(directories.solutions, created.solution_file)
            /\ f.text # <<>>
            /\ IsPrefix(generate_metadata_comment(problem_info, language), f.text)

\* the three artifact files of the running session are on disk as written
ArtifactsOnDisk ==
    \A i \in 1..3 :
        LET w == ProblemWrites(problem_info, language, directories)[i]
        IN [path |-> w.path, text |-> w.text] \in files

NoSuccessReport ==
    \A i \in DOMAIN printed : printed[i].words # "Setup complete! Files created in "

====
